---------------------------- MODULE Spec2Model ----------------------------
(***************************************************************************)
(* A model of neuralprocesses/model.py: the Model orchestrator (its two    *)
(* call forms), the Parallel-aware helpers _sample and _kl, the elbo       *)
(* objective and predict with its regularisation retry loop.               *)
(*                                                                         *)
(* Coders and distributions are external: a coder invocation is recorded   *)
(* in the call log with the arguments it received and answers with a       *)
(* symbolic value or, when the environment says so, with a failure.        *)
(* B.epsilon is a Python float: it is modelled as an IEEE-754 double, and  *)
(* `B.epsilon *= 10` as the correctly rounded double product.              *)
(***************************************************************************)
EXTENDS Integers, Sequences, FiniteSets, TLC

VARIABLES
    epsilon,        \* B.epsilon, the process-wide regularisation scalar
    pc,             \* position of the running call ("idle" when none has run yet)
    op,             \* the operation that is running or has last finished
    args,           \* the arguments of that operation
    env,            \* how the external coders and the sampler answer during it
    calls,          \* the log of coder / distribution invocations it has made
    result,         \* the value it returned (None while running or after a raise)
    raised,         \* the exception it raised (NoExc when none)
    epsilon_before, \* predict's local of line 277
    e,              \* predict's local e: the exception caught last (line 282)
    attempts,       \* number of pred_noiseless.sample() attempts made (saturating)
    escalations,    \* number of executions of line 283 (saturating)
    eps_at_call,    \* history: B.epsilon when the running operation was entered
    eps_at_raise    \* history: B.epsilon at the moment the operation raised

vars == <<epsilon, pc, op, args, env, calls, result, raised,
          epsilon_before, e, attempts, escalations, eps_at_call, eps_at_raise>>

-----------------------------------------------------------------------------
(* Bounds of the model.                                                    *)

\* Largest number of (input, output) pairs / Parallel branches enumerated.
MaxBranches == 2

\* The attempt and escalation counters saturate here (the loop itself does not).
MaxCount == 8

-----------------------------------------------------------------------------
(* IEEE-754 doubles.  A normal double is sign * (hi * 2^27 + lo) * 2^(exp-52)*)
(* with a 53-bit significand hi * 2^27 + lo, 2^25 <= hi < 2^26.            *)

Two25 == 2^25
Two26 == 2^26
Two27 == 2^27
MaxExp == 2^10 - 1

Dbl(sign, exp, hi, lo) == [cls |-> "normal", sign |-> sign, exp |-> exp, hi |-> hi, lo |-> lo]
FZero == [cls |-> "zero", sign |-> 0, exp |-> 0, hi |-> 0, lo |-> 0]
FInf(sign) == [cls |-> "inf", sign |-> sign, exp |-> 0, hi |-> 0, lo |-> 0]

\* Literals of the source and of the spec's test cases (float.hex in comments).
F_1em3 == Dbl(0, -10, 34359738, 49392124)    \* 0x1.0624dd2f1a9fcp-10
F_1em4 == Dbl(0, -14, 54975581, 52183853)    \* 0x1.a36e2eb1c432dp-14
F_1em6 == Dbl(0, -20, 35184372, 11922829)    \* 0x1.0c6f7a0b5ed8dp-20
F_1em8 == Dbl(0, -27, 45035996, 36736058)    \* 0x1.5798ee2308c3ap-27
F_2em4 == Dbl(0, -13, 54975581, 52183853)    \* 0x1.a36e2eb1c432dp-13
F_1em2 == Dbl(0, -7, 42949672, 128849019)    \* 0x1.47ae147ae147bp-7
F_neg1e307 == Dbl(1, 1019, 59728871, 78410803) \* -0x1.c7b1f3cac7433p+1019

\* x * 10, rounded to nearest, ties to even (Python's float * int).
FMul10(f) ==
    IF f.cls # "normal" THEN f
    ELSE
    LET p    == f.lo * 10
        Lo   == p % Two27
        H    == f.hi * 10 + (p \div Two27)
        s    == IF H >= 2^29 THEN 4 ELSE 3       \* bits to drop: 57 - 53 or 56 - 53
        khi  == H \div (2^s)
        klo  == (H % (2^s)) * (2^(27 - s)) + (Lo \div (2^s))
        r    == Lo % (2^s)
        half == 2^(s - 1)
        up   == r > half \/ (r = half /\ klo % 2 = 1)
        lo1  == IF up THEN klo + 1 ELSE klo
        hi1  == IF lo1 = Two27 THEN khi + 1 ELSE khi
        lo2  == lo1 % Two27
        ovf  == hi1 = Two26
        e1   == f.exp + s + (IF ovf THEN 1 ELSE 0)
    IN  IF e1 > MaxExp THEN FInf(f.sign)
        ELSE Dbl(f.sign, e1, IF ovf THEN Two25 ELSE hi1, lo2)

FRank(f) == CASE f.cls = "zero" -> 0 [] f.cls = "normal" -> 1 [] OTHER -> 2

\* |a| > |b|
FMagGt(a, b) ==
    \/ FRank(a) > FRank(b)
    \/ /\ a.cls = "normal" /\ b.cls = "normal"
       /\ \/ a.exp > b.exp
          \/ a.exp = b.exp /\ a.hi > b.hi
          \/ a.exp = b.exp /\ a.hi = b.hi /\ a.lo > b.lo

\* a > b
FGt(a, b) ==
    CASE a.sign = 0 /\ b.sign = 0 -> FMagGt(a, b)
      [] a.sign = 0 /\ b.sign = 1 -> ~(a.cls = "zero" /\ b.cls = "zero")
      [] a.sign = 1 /\ b.sign = 0 -> FALSE
      [] OTHER -> FMagGt(b, a)

FLt(a, b) == FGt(b, a)

-----------------------------------------------------------------------------
(* Values.  Every tensor, input, container, distribution, sample, dtype    *)
(* and option value is one record shape, told apart by its tag.            *)

V(tag, id, items, num) == [tag |-> tag, id |-> id, items |-> items, num |-> num]

None == V("None", "", <<>>, 0)
Tensor(id, n) == V("tensor", id, <<>>, n)     \* n: size of the last axis
IntVal(n) == V("int", "", <<>>, n)
BoolVal(b) == V("bool", IF b THEN "True" ELSE "False", <<>>, 0)
Dtype(name) == V("dtype", name, <<>>, 0)
Dist(id) == V("dist", id, <<>>, 0)            \* an AbstractMultiOutputDistribution
Parallel(items) == V("Parallel", "", items, 0)
AugmentedInput(x, aux) == V("AugmentedInput", "", <<x, aux>>, 0)
Pair(a, b) == V("tuple", "", <<a, b>>, 0)

\* Exceptions: kind, and for a sampling failure the attempt that raised it.
Exc(kind, n) == [kind |-> kind, n |-> n]
NoExc == Exc("", 0)

\* An invocation of an external collaborator: function, coder, positional
\* arguments, keyword arguments.
Call(fn, coder, a, kw) == [fn |-> fn, coder |-> coder, a |-> a, kw |-> kw]

EmptyDict == [k \in {} |-> None]
DictDel(d, key) == [k \in (DOMAIN d) \ {key} |-> d[k]]
DictGet(d, key, default) == IF key \in DOMAIN d THEN d[key] ELSE default

\* Python truthiness of an option value (`if dtype_enc_sample:`).
Truthy(v) == ~(v.tag = "None" \/ (v.tag = "bool" /\ v.id = "False") \/ (v.tag = "int" /\ v.num = 0))

-----------------------------------------------------------------------------
(* External collaborators, as far as the core relies on them.              *)

\* x.sample(num=num): a tensor with a leading sample axis of size num.
DistSample(x, num) == V("sample", x.id, x.items, num)

\* B.cast(dtype, z)
Cast(dtype, z) == V("cast", dtype.id, <<z>>, 0)

\* B.concat(a, b, axis=-1)
Concat(a, b) == V("concat", "", <<a, b>>, a.num + b.num)

\* The encoded representation and the decoder's predictive distribution.
Encoded(xc, yc, xt) == V("xz", "", <<xc, yc, xt>>, 0)
Decoded(xz, z, xt) == V("dist", "d", <<xz, z, xt>>, 0)

-----------------------------------------------------------------------------
(* _sample, model.py:114-121.                                              *)

RECURSIVE _sample(_, _)

\* The recursion calling _sample(xi) without passing num on.
_sample_default_num(x, num) ==
    IF x.tag = "Parallel"
    THEN Parallel([i \in 1..Len(x.items) |-> _sample(x.items[i], 1)])
    ELSE DistSample(x, num)

_sample(x, num) ==
    IF x.tag = "Parallel"
    THEN Parallel([i \in 1..Len(x.items) |-> _sample(x.items[i], num)])
    ELSE DistSample(x, num)

\* The x.sample(num=num) invocations _sample makes, in the order it makes them.
RECURSIVE Flatten(_)
Flatten(ss) == IF ss = <<>> THEN <<>> ELSE Head(ss) \o Flatten(Tail(ss))

RECURSIVE _sample_calls(_, _)
_sample_calls(x, num) ==
    IF x.tag = "Parallel"
    THEN Flatten([i \in 1..Len(x.items) |-> _sample_calls(x.items[i], num)])
    ELSE <<Call("sample", "", <<x>>, "num" :> IntVal(num))>>

-----------------------------------------------------------------------------
(* _kl, model.py:232-239.  plum dispatches on the pair of types: only      *)
(* (distribution, distribution) and (Parallel, Parallel) have a method.    *)

Min(a, b) == IF a < b THEN a ELSE b

\* zip(q, p): the pairs up to the shorter operand.
Zip(q, p) == [i \in 1..Min(Len(q.items), Len(p.items)) |-> <<q.items[i], p.items[i]>>]

\* _kl(q, p) as the q.kl(p) invocations it makes, in order, and whether it
\* raises: the values of the invocations are added up, seeded with 0, and a
\* pair of types without a method raises where the recursion meets it.
RECURSIVE _kl(_, _)
RECURSIVE SumOver(_, _, _)
SumOver(pairs, i, acc) ==
    IF i > Len(pairs) THEN [calls |-> acc, raises |-> FALSE]
    ELSE LET r == _kl(pairs[i][1], pairs[i][2])
         IN  IF r.raises THEN [calls |-> acc \o r.calls, raises |-> TRUE]
             ELSE SumOver(pairs, i + 1, acc \o r.calls)

_kl(q, p) ==
    IF q.tag = "Parallel" /\ p.tag = "Parallel" THEN SumOver(Zip(q, p), 1, <<>>)
    ELSE IF q.tag = "dist" /\ p.tag = "dist"
    THEN [calls |-> <<Call("kl", "", <<q, p>>, EmptyDict)>>, raises |-> FALSE]
    ELSE [calls |-> <<>>, raises |-> TRUE]

-----------------------------------------------------------------------------
(* Model.__call__, Form A: model.py:34-79.                                 *)

\* The keyword names Form A's signature binds itself (lines 41-43).
NamedOptions == {"num_samples", "aux_t", "dtype_enc_sample"}

\* **kw_args: what is left of the caller's keywords after the named ones.
KwArgs(opts) == [k \in (DOMAIN opts) \ NamedOptions |-> opts[k]]

\* Lines 67-69: enc_kw_args is a copy of kw_args without `noiseless`.
EncKwArgs(kw_args) == DictDel(kw_args, "noiseless")

\* enc_kw_args bound to kw_args itself instead of to a copy.
KwArgsAfterStrip_aliased(kw_args) == DictDel(kw_args, "noiseless")

\* kw_args itself after lines 67-69: the deletion acted on the copy.
KwArgsAfterStrip(kw_args) == kw_args

\* Lines 62-63.
Augment(xt, aux_t) == IF aux_t # None THEN AugmentedInput(xt, aux_t) ELSE xt

\* Lines 73-75.
EncSample(pz, num_samples, dtype_enc_sample) ==
    IF Truthy(dtype_enc_sample)
    THEN Cast(dtype_enc_sample, _sample(pz, num_samples))
    ELSE _sample(pz, num_samples)

Outcome(cs, exc, res) == [calls |-> cs, raised |-> exc, result |-> res]

\* en.pz is the distribution the encoder answers with; en.fails names the
\* coder that raises ("" for none).
FormA(xc, yc, xt, opts, en) ==
    LET num_samples      == DictGet(opts, "num_samples", IntVal(1)).num
        aux_t            == DictGet(opts, "aux_t", None)
        dtype_enc_sample == DictGet(opts, "dtype_enc_sample", None)
        kw_args          == KwArgs(opts)
        xt1              == Augment(xt, aux_t)
        enc_kw_args      == EncKwArgs(kw_args)
        kw_args1         == KwArgsAfterStrip(kw_args)
        c1               == Call("code", "encoder", <<xc, yc, xt1>>, enc_kw_args)
        xz               == Encoded(xc, yc, xt1)
        z                == EncSample(en.pz, num_samples, dtype_enc_sample)
        c2               == Call("code", "decoder", <<xz, z, xt1>>, kw_args1)
    IN  IF en.fails = "encoder"
        THEN Outcome(<<c1>>, Exc("EncoderError", 0), None)
        ELSE IF en.fails = "decoder"
        THEN Outcome(<<c1>> \o _sample_calls(en.pz, num_samples) \o <<c2>>,
                     Exc("DecoderError", 0), None)
        ELSE Outcome(<<c1>> \o _sample_calls(en.pz, num_samples) \o <<c2>>,
                     NoExc, Decoded(xz, z, xt1))

-----------------------------------------------------------------------------
(* Model.__call__, Form B: model.py:81-93.                                 *)

\* The components taken in reverse sequence order.
Component_reversed(contexts, k) ==
    Parallel([i \in 1..Len(contexts) |-> contexts[Len(contexts) + 1 - i].items[k]])

\* Parallel(*(c[k] for c in contexts))
Component(contexts, k) == Parallel([i \in 1..Len(contexts) |-> contexts[i].items[k]])

FormB(contexts, xt, opts, en) ==
    FormA(Component(contexts, 1), Component(contexts, 2), xt, opts, en)

-----------------------------------------------------------------------------
(* elbo, model.py:174-229.                                                 *)

\* B.promote_dtypes(float, np.float64)
Promote64(dt) == Dtype("float64")

\* Lines 205-208.
Subsume(c, t, subsume_context) == IF subsume_context THEN Concat(c, t) ELSE t

\* The value of sum([...], 0) over the q.kl(p) invocations.
KlValue(kls) == V("sum", "", [i \in 1..Len(kls) |-> V("kl", "", kls[i].a, 0)], 0)

\* Sampling the prior instead of the posterior.
ElboSampled_prior(qz, pz) == pz

\* Line 217: the distribution that is sampled.
ElboSampled(qz, pz) == qz

\* Line 223: the q.kl(p) invocations, made once after the mean over the sample axis.
ElboKl(qz, pz, num_samples) == _kl(qz, pz)

\* Lines 225-227.
Normalise(v, xt, normalise) == IF normalise THEN V("div", "", <<v>>, xt.num) ELSE v

\* en.dtype is the floating dtype of yt; en.pz and en.qz are the prior and
\* the posterior the encoder answers with; en.fails names the step whose
\* collaborator raises ("" for none): the tracked encode of line 211, the
\* recode of line 214, the first sample() of line 217, the decoder of line
\* 220, logpdf of line 223 or the first q.kl(p) of line 223. elbo catches
\* nothing, so the failure leaves it at that step.
\* Lines 211, 214 and 220 pass dtype_lik=float64 next to **kw_args: a caller's
\* own dtype_lik makes the first of them, line 211, raise TypeError.
DuplicateKeyword(kw_args) == "dtype_lik" \in DOMAIN kw_args

elbo(xc, yc, xt, yt, num_samples, normalise, subsume_context, kw_args, en) ==
    LET float   == Dtype(en.dtype)
        float64 == Promote64(float)
        xt1     == Subsume(xc, xt, subsume_context)
        yt1     == Subsume(yc, yt, subsume_context)
        kw      == ("dtype_lik" :> float64) @@ kw_args
        c1      == Call("code_track", "encoder", <<xc, yc, xt1>>, kw)
        xz      == Encoded(xc, yc, xt1)
        h       == V("h", "", <<xc, yc, xt1>>, 0)
        c2      == Call("recode_stochastic", "encoder", <<en.pz, xt1, yt1, h>>, kw)
        sc      == _sample_calls(ElboSampled(en.qz, en.pz), num_samples)
        z       == Cast(float, _sample(ElboSampled(en.qz, en.pz), num_samples))
        c3      == Call("code", "decoder", <<xz, z, xt1>>, kw)
        d       == Decoded(xz, z, xt1)
        c4      == Call("logpdf", "", <<d, Cast(float64, yt1)>>, EmptyDict)
        lp      == V("logpdf", "", <<d, Cast(float64, yt1)>>, 0)
        c5      == Call("mean", "", <<lp>>, "axis" :> IntVal(0))
        kl      == ElboKl(en.qz, en.pz, num_samples)
        elbos   == V("sub", "", <<V("mean", "", <<lp>>, 0), KlValue(kl.calls)>>, 0)
    IN  IF DuplicateKeyword(kw_args)
        THEN Outcome(<<>>, Exc("TypeError", 0), None)
        ELSE IF en.fails = "code_track"
        THEN Outcome(<<c1>>, Exc("EncoderError", 0), None)
        ELSE IF en.fails = "recode_stochastic"
        THEN Outcome(<<c1, c2>>, Exc("EncoderError", 0), None)
        ELSE IF en.fails = "sample" /\ Len(sc) > 0
        THEN Outcome(<<c1, c2, sc[1]>>, Exc("SampleError", 0), None)
        ELSE IF en.fails = "decoder"
        THEN Outcome(<<c1, c2>> \o sc \o <<c3>>, Exc("DecoderError", 0), None)
        ELSE IF en.fails = "logpdf"
        THEN Outcome(<<c1, c2>> \o sc \o <<c3, c4>>, Exc("LogpdfError", 0), None)
        ELSE IF en.fails = "kl" /\ Len(kl.calls) > 0
        THEN Outcome(<<c1, c2>> \o sc \o <<c3, c4, c5, kl.calls[1]>>,
                     Exc("KlError", 0), None)
        ELSE IF kl.raises
        THEN Outcome(<<c1, c2>> \o sc \o <<c3, c4, c5>> \o kl.calls,
                     Exc("NotFoundLookupError", 0), None)
        ELSE Outcome(<<c1, c2>> \o sc \o <<c3, c4, c5>> \o kl.calls,
                     NoExc, Normalise(elbos, xt1, normalise))

-----------------------------------------------------------------------------
(* Inputs.                                                                 *)

\* generate_data's defaults: sizes of the context and target sets.
NContext == 5
NTarget == 7

\* predict's defaults.
DefaultPredNumSamples == 50
DefaultNumSamples == 5

xc0 == Tensor("xc", NContext)
yc0 == Tensor("yc", NContext)
xt0 == Tensor("xt", NTarget)
yt0 == Tensor("yt", NTarget)

\* Sequences over S of length lo..hi.
SeqsOf(S, lo, hi) == UNION {[1..n -> S] : n \in lo..hi}

\* Distributions: atomic, Parallel of atomic, and Parallel with a Parallel as
\* its first or its last branch.
Level0(ids) == {Dist(i) : i \in ids}
Level1(ids) == Level0(ids) \cup {Parallel(s) : s \in SeqsOf(Level0(ids), 0, MaxBranches)}
Parallels(ids) == Level1(ids) \ Level0(ids)
Level2(ids) ==
    Level1(ids)
        \cup {Parallel(<<t>> \o s) : t \in Parallels(ids), s \in SeqsOf(Level0(ids), 0, 1)}
        \cup {Parallel(s \o <<t>>) : t \in Parallels(ids), s \in SeqsOf(Level0(ids), 1, 1)}

\* A Parallel wrapped as the only branch of another.
Wrapped(ids) == {Parallel(<<Parallel(s)>>) : s \in SeqsOf(Level0(ids), 0, MaxBranches)}

\* The distributions an encoder answers with, by shape; prior and posterior
\* have their own atomic distributions.
Shaped(k, a, b) ==
    CASE k = 1 -> Dist(a)
      [] k = 2 -> Parallel(<<Dist(a), Dist(b)>>)
      [] k = 3 -> Parallel(<<Dist(a)>>)
      [] OTHER -> Parallel(<<Parallel(<<Dist(b)>>), Dist(a)>>)
Shapes == 1..4
Prior(k) == Shaped(k, "p1", "p2")
Posterior(k) == Shaped(k, "q1", "q2")

\* Keyword options a caller of the Model may pass, with the values enumerated.
OptionNames == {"noiseless", "num_samples", "aux_t", "dtype_enc_sample", "dtype_lik"}
OptionValue(k) ==
    CASE k = "noiseless" -> BoolVal(TRUE)
      [] k = "num_samples" -> IntVal(2)
      [] k = "aux_t" -> Tensor("aux_t", NTarget)
      [] k = "dtype_enc_sample" -> Dtype("float32")
      [] OTHER -> Dtype("float64")
Options == {[k \in D |-> OptionValue(k)] : D \in SUBSET OptionNames}

\* Context sets handed to Form B.
ContextPairs == {Pair(Tensor("xa", NContext), Tensor("ya", NContext)),
                 Pair(Tensor("xb", NTarget), Tensor("yb", NTarget))}
ContextLists == SeqsOf(ContextPairs, 1, MaxBranches)

\* Values of B.epsilon the process may start with: the tests' 1e-6, smaller
\* and larger jitters, jitter switched off, and a negative value. predict may
\* leave B.epsilon escalated (PredictSampleInterrupted), so the values it takes
\* are these and their products by 10; the negative one is two products away
\* from -inf, which keeps them few.
EpsilonValues == {F_1em6, F_1em8, F_2em4, F_1em2, FZero, F_neg1e307}

\* How pred_noiseless.sample() answers: it fails while the jitter is below a
\* threshold, or always, or never, or as it pleases.
Samplers == {[kind |-> "below", thr |-> F_1em4], [kind |-> "always", thr |-> FZero],
             [kind |-> "never", thr |-> FZero], [kind |-> "any", thr |-> FZero]}

\* Which coder invocation of predict's Model calls fails, if any.
CoderFailures == {"", "encoder", "decoder"}
\* The step of elbo whose collaborator raises, "" for none.
ElboFailures == {"", "code_track", "recode_stochastic", "sample", "decoder", "logpdf", "kl"}
PredictFailures == {<<0, "">>, <<1, "encoder">>, <<1, "decoder">>, <<2, "encoder">>, <<2, "decoder">>}

-----------------------------------------------------------------------------
(* The state machine.                                                      *)

\* The positions at which an operation has ended.
Ended == {"returned", "raised"}

Init ==
    /\ epsilon \in EpsilonValues
    /\ pc = "idle"
    /\ op = ""
    /\ args = EmptyDict
    /\ env = EmptyDict
    /\ calls = <<>>
    /\ result = None
    /\ raised = NoExc
    /\ epsilon_before = FZero
    /\ e = NoExc
    /\ attempts = 0
    /\ escalations = 0
    /\ eps_at_call = epsilon
    /\ eps_at_raise = epsilon

\* An operation is entered with arguments a in environment en.
Enter(name, a, en) ==
    /\ pc = "idle"
    /\ op' = name
    /\ args' = a
    /\ env' = en
    /\ eps_at_call' = epsilon
    /\ eps_at_raise' = epsilon
    /\ epsilon_before' = FZero
    /\ e' = NoExc
    /\ attempts' = 0
    /\ escalations' = 0

\* An operation that runs in one step ends with outcome out.
Leave(out) ==
    /\ calls' = out.calls
    /\ result' = out.result
    /\ raised' = out.raised
    /\ pc' = IF out.raised = NoExc THEN "returned" ELSE "raised"
    /\ UNCHANGED epsilon

\* The caller has the outcome; the call's frame is gone and only B.epsilon stays.
Return ==
    /\ pc \in Ended
    /\ pc' = "idle"
    /\ op' = ""
    /\ args' = EmptyDict
    /\ env' = EmptyDict
    /\ calls' = <<>>
    /\ result' = None
    /\ raised' = NoExc
    /\ epsilon_before' = FZero
    /\ e' = NoExc
    /\ attempts' = 0
    /\ escalations' = 0
    /\ eps_at_call' = epsilon
    /\ eps_at_raise' = epsilon
    /\ UNCHANGED epsilon

\* tests/util.py:17-18, run when the tests are imported.
StabiliseNumerics ==
    /\ pc = "idle"
    /\ epsilon # F_1em6
    /\ epsilon' = F_1em6
    /\ eps_at_call' = F_1em6
    /\ eps_at_raise' = F_1em6
    /\ UNCHANGED <<pc, op, args, env, calls, result, raised, epsilon_before, e,
                   attempts, escalations>>

CallFormA ==
    \E opts \in Options, k \in Shapes, f \in CoderFailures :
        LET a  == [xc |-> xc0, yc |-> yc0, xt |-> xt0, opts |-> opts]
            en == [pz |-> Prior(k), fails |-> f]
        IN  /\ Enter("FormA", a, en)
            /\ Leave(FormA(a.xc, a.yc, a.xt, a.opts, en))

CallFormB ==
    \E contexts \in ContextLists, opts \in Options, k \in {1, 2}, f \in CoderFailures :
        LET a  == [contexts |-> contexts, xt |-> xt0, opts |-> opts]
            en == [pz |-> Prior(k), fails |-> f]
        IN  /\ Enter("FormB", a, en)
            /\ Leave(FormB(a.contexts, a.xt, a.opts, en))

CallSample ==
    \E x \in Level2({"p1", "p2"}), num \in {1, 3} :
        /\ Enter("_sample", [x |-> x, num |-> num], EmptyDict)
        /\ Leave(Outcome(_sample_calls(x, num), NoExc, _sample(x, num)))

CallKl ==
    \E q \in Level1({"q1", "q2"}) \cup Wrapped({"q1", "q2"}),
       p \in Level1({"p1", "p2"}) \cup Wrapped({"p1", "p2"}) :
        /\ Enter("_kl", [q |-> q, p |-> p], EmptyDict)
        /\ Leave(IF _kl(q, p).raises
                 THEN Outcome(_kl(q, p).calls, Exc("NotFoundLookupError", 0), None)
                 ELSE Outcome(_kl(q, p).calls, NoExc, KlValue(_kl(q, p).calls)))

\* yt has the dtype of the tests' data, float32 (tests/util.py:46).
CallElbo ==
    \E num_samples \in {1, 2}, normalise \in BOOLEAN, subsume_context \in BOOLEAN,
       kw_args \in {EmptyDict, "extra" :> IntVal(1), "dtype_lik" :> Dtype("float32")},
       k \in Shapes, j \in Shapes, f \in ElboFailures,
       dt \in {"float32"} :
        LET a  == [xc |-> xc0, yc |-> yc0, xt |-> xt0, yt |-> yt0,
                   num_samples |-> num_samples, normalise |-> normalise,
                   subsume_context |-> subsume_context, kw_args |-> kw_args]
            en == [pz |-> Prior(k), qz |-> Posterior(j), dtype |-> dt, fails |-> f]
        IN  /\ Enter("elbo", a, en)
            /\ Leave(elbo(a.xc, a.yc, a.xt, a.yt, num_samples, normalise,
                          subsume_context, kw_args, en))

-----------------------------------------------------------------------------
(* predict, model.py:242-290.                                              *)

\* The hard ceiling of line 284.
Ceiling == F_1em3

\* The product computed but not assigned back.
Escalate_unassigned(eps) == eps

\* Line 283: B.epsilon *= 10
Escalate(eps) == FMul10(eps)

\* Line 284: B.epsilon > 1e-3
ExceedsCeiling(eps) == FGt(eps, Ceiling)

\* Line 286: B.epsilon = epsilon_before, before failing.
ResetBeforeFailing(eps, before) == before

\* Line 288: B.epsilon = epsilon_before, after success.
ResetAfterSuccess(eps, before) == before

\* The caught failure wrapped in a new exception.
Reraise_wrapped(exc) == Exc("RuntimeError", exc.n)

\* Line 287: raise e
Reraise(exc) == exc

\* Whether the names batch, x and torch of lines 268-272 resolve: model.py
\* neither defines nor imports them, so they do only if the host has put
\* them into the module's namespace.
NamesResolve(en) == en.names_bound

\* Line 261: model(xc, yc, xt, num_samples=pred_num_samples)
FirstCall(a, en) ==
    FormA(a.xc, a.yc, a.xt, "num_samples" :> IntVal(a.pred_num_samples),
          [pz |-> en.pz, fails |-> IF en.fails[1] = 1 THEN en.fails[2] ELSE ""])

\* Lines 267-275: the positional arguments are the module-level batch["xc"],
\* batch["yc"] and x, not predict's own xc, yc and xt.
SecondCallInputs(a) ==
    [xc |-> Tensor("batch.xc", NContext), yc |-> Tensor("batch.yc", NContext),
     xt |-> Tensor("x", NTarget)]

SecondCallOptions(a) ==
    [k \in {"dtype_enc_sample", "dtype_lik", "noiseless", "num_samples"} |->
        CASE k = "dtype_enc_sample" -> Dtype("float32")
          [] k = "dtype_lik" -> Dtype("float64")
          [] k = "noiseless" -> BoolVal(TRUE)
          [] OTHER -> IntVal(a.num_samples)]

SecondCall(a, en) ==
    FormA(SecondCallInputs(a).xc, SecondCallInputs(a).yc, SecondCallInputs(a).xt,
          SecondCallOptions(a),
          [pz |-> en.pz, fails |-> IF en.fails[1] = 2 THEN en.fails[2] ELSE ""])

\* Lines 262-264 and 290: the returned triple.
Moment(name, pred) == V(name, "", <<pred>>, 0)
PredictResult(a, en) ==
    V("tuple", "", <<Moment("mean", FirstCall(a, en).result),
                     Moment("var", FirstCall(a, en).result),
                     DistSample(SecondCall(a, en).result, 0)>>, 0)

\* Line 280: whether pred_noiseless.sample() can fail / succeed at jitter eps.
SamplerMayFail(sampler, eps) ==
    CASE sampler.kind = "below" -> FLt(eps, sampler.thr)
      [] sampler.kind = "always" -> TRUE
      [] sampler.kind = "never" -> FALSE
      [] OTHER -> TRUE
SamplerMaySucceed(sampler, eps) ==
    CASE sampler.kind = "below" -> ~FLt(eps, sampler.thr)
      [] sampler.kind = "always" -> FALSE
      [] sampler.kind = "never" -> TRUE
      [] OTHER -> TRUE

Inc(n) == IF n < MaxCount THEN n + 1 ELSE n

\* The attempts at which pred_noiseless.sample() may raise a BaseException
\* that is no Exception (KeyboardInterrupt, SystemExit, ...); 0 for never.
InterruptAt == {0, 1, 3}

\* Whether the attempt about to be made is the one that is interrupted.
Interrupted(en, n) == en.interrupt_at # 0 /\ en.interrupt_at = n + 1

PredictCall ==
    \E ns \in {<<DefaultPredNumSamples, DefaultNumSamples>>, <<2, 1>>},
       sampler \in Samplers, f \in PredictFailures, b \in BOOLEAN,
       ia \in InterruptAt :
        /\ Enter("predict",
                 [xc |-> xc0, yc |-> yc0, xt |-> xt0,
                  pred_num_samples |-> ns[1], num_samples |-> ns[2]],
                 [pz |-> Prior(2), fails |-> f, sampler |-> sampler, names_bound |-> b,
                  interrupt_at |-> ia])
        /\ pc' = "p_first"
        /\ calls' = <<>>
        /\ result' = None
        /\ raised' = NoExc
        /\ UNCHANGED epsilon

\* Lines 261-264.
PredictFirst ==
    /\ pc = "p_first"
    /\ LET out == FirstCall(args, env)
       IN  /\ calls' = calls \o out.calls
           /\ raised' = out.raised
           /\ pc' = IF out.raised = NoExc THEN "p_second" ELSE "raised"
    /\ eps_at_raise' = epsilon
    /\ UNCHANGED <<epsilon, op, args, env, result, epsilon_before, e, attempts,
                   escalations, eps_at_call>>

\* Lines 267-277.
PredictSecond ==
    /\ pc = "p_second"
    /\ IF ~NamesResolve(env)
       THEN /\ raised' = Exc("NameError", 0)
            /\ pc' = "raised"
            /\ UNCHANGED <<calls, epsilon_before>>
       ELSE LET out == SecondCall(args, env)
            IN  /\ calls' = calls \o out.calls
                /\ raised' = out.raised
                /\ pc' = IF out.raised = NoExc THEN "p_try" ELSE "raised"
                /\ epsilon_before' = IF out.raised = NoExc THEN epsilon ELSE epsilon_before
    /\ eps_at_raise' = epsilon
    /\ UNCHANGED <<epsilon, op, args, env, result, e, attempts, escalations, eps_at_call>>

\* Lines 280-281 and 288-290: the attempt succeeds.
PredictSampleSucceeds ==
    /\ pc = "p_try"
    /\ ~Interrupted(env, attempts)
    /\ SamplerMaySucceed(env.sampler, epsilon)
    /\ attempts' = Inc(attempts)
    /\ epsilon' = ResetAfterSuccess(epsilon, epsilon_before)
    /\ result' = PredictResult(args, env)
    /\ pc' = "returned"
    /\ UNCHANGED <<op, args, env, calls, raised, epsilon_before, e, escalations,
                   eps_at_call, eps_at_raise>>

\* Lines 280 and 282: the attempt fails and the failure is caught.
PredictSampleFails ==
    /\ pc = "p_try"
    /\ ~Interrupted(env, attempts)
    /\ SamplerMayFail(env.sampler, epsilon)
    /\ attempts' = Inc(attempts)
    /\ e' = Exc("SampleError", attempts')
    /\ pc' = "p_except"
    /\ UNCHANGED <<epsilon, op, args, env, calls, result, raised, epsilon_before,
                   escalations, eps_at_call, eps_at_raise>>

\* Lines 280 and 282: the attempt raises a BaseException that `except
\* Exception` does not catch; it leaves predict with B.epsilon as it is.
PredictSampleInterrupted ==
    /\ pc = "p_try"
    /\ Interrupted(env, attempts)
    /\ attempts' = Inc(attempts)
    /\ raised' = Exc("KeyboardInterrupt", attempts')
    /\ eps_at_raise' = epsilon
    /\ pc' = "raised"
    /\ UNCHANGED <<epsilon, op, args, env, calls, result, epsilon_before, e,
                   escalations, eps_at_call>>

\* Lines 283-287.
PredictEscalate ==
    /\ pc = "p_except"
    /\ escalations' = Inc(escalations)
    /\ IF ExceedsCeiling(Escalate(epsilon))
       THEN /\ epsilon' = ResetBeforeFailing(Escalate(epsilon), epsilon_before)
            /\ raised' = Reraise(e)
            /\ eps_at_raise' = epsilon'
            /\ pc' = "raised"
       ELSE /\ epsilon' = Escalate(epsilon)
            /\ pc' = "p_try"
            /\ UNCHANGED <<raised, eps_at_raise>>
    /\ UNCHANGED <<op, args, env, calls, result, epsilon_before, e, attempts, eps_at_call>>

PredictStep ==
    \/ PredictFirst
    \/ PredictSecond
    \/ PredictSampleSucceeds
    \/ PredictSampleFails
    \/ PredictSampleInterrupted
    \/ PredictEscalate

Next ==
    \/ StabiliseNumerics
    \/ CallFormA
    \/ CallFormB
    \/ CallSample
    \/ CallKl
    \/ CallElbo
    \/ PredictCall
    \/ PredictStep
    \/ Return

Spec == Init /\ [][Next]_vars

\* A call that has been entered keeps executing: the interpreter runs
\* predict's statements one after the other.
FairSpec == Spec /\ WF_vars(PredictStep)

-----------------------------------------------------------------------------
(* Properties.                                                             *)

\* The atomic distributions of a (nested) Parallel, in branch order.
RECURSIVE Leaves(_)
Leaves(x) ==
    IF x.tag = "Parallel"
    THEN Flatten([i \in 1..Len(x.items) |-> Leaves(x.items[i])])
    ELSE <<x>>

\* r has the structure of x, each atomic branch replaced by its sample of size num.
RECURSIVE Mirrors(_, _, _)
Mirrors(x, r, num) ==
    IF x.tag = "Parallel"
    THEN /\ r.tag = "Parallel"
         /\ Len(r.items) = Len(x.items)
         /\ \A i \in 1..Len(x.items) : Mirrors(x.items[i], r.items[i], num)
    ELSE r.tag = "sample" /\ r.id = x.id /\ r.num = num

Positive(f) == f.sign = 0 /\ f.cls # "zero"

\* The keyword options of a call that Form A does not bind itself.
ExtraOptions(opts) == [k \in (DOMAIN opts) \ NamedOptions |-> opts[k]]

\* C1 (as claimed): when a predict invocation has returned or raised,
\* B.epsilon equals the value it had when the invocation was entered.
C1_EpsilonRestored ==
    (op = "predict" /\ pc \in Ended) => epsilon = eps_at_call

\* C2 (as claimed): from B.epsilon = 1e-6, with a sampler that fails below 1e-4
\* and succeeds from 1e-4 on, the retry loop succeeds after exactly 2
\* escalations; with a sampler that always fails it gives up only once the
\* escalated value exceeds 1e-3.
C2_TwoEscalations ==
    (op = "predict" /\ pc \in Ended /\ attempts > 0 /\ eps_at_call = F_1em6
        /\ env.interrupt_at = 0) =>
        /\ (env.sampler = [kind |-> "below", thr |-> F_1em4]) =>
               (pc = "returned" /\ escalations = 2 /\ result.tag = "tuple")
        /\ (env.sampler.kind = "always") =>
               (pc = "raised" /\ raised.kind = "SampleError")

\* C3 (as claimed): predict calls the Model twice on its own xc, yc, xt, first
\* with num_samples=pred_num_samples, then with noiseless=True and
\* num_samples=num_samples, and returns the triple when nothing fails.
C3_TwoCallsOnOwnArguments ==
    (op = "predict" /\ pc \in Ended /\ env.fails[1] = 0 /\ env.sampler.kind = "never"
        /\ env.interrupt_at = 0) =>
        LET en    == [pz |-> env.pz, fails |-> ""]
            first == FormA(args.xc, args.yc, args.xt,
                           "num_samples" :> IntVal(args.pred_num_samples), en)
            second == FormA(args.xc, args.yc, args.xt,
                            ("noiseless" :> BoolVal(TRUE))
                                @@ ("num_samples" :> IntVal(args.num_samples)), en)
        IN  /\ pc = "returned"
            /\ calls = first.calls \o second.calls
            /\ result.tag = "tuple" /\ Len(result.items) = 3

\* C4: in a Form A call the encoder receives the extra options without
\* `noiseless`, the decoder receives all of them, `noiseless` included, every
\* value unchanged, and the option set is as the caller passed it.
C4_NoiselessOnlyToDecoder ==
    (op = "FormA" /\ pc \in Ended) =>
        LET extra == ExtraOptions(args.opts)
            enc   == calls[1]
            dec   == calls[Len(calls)]
        IN  /\ Len(calls) >= 1
            /\ enc.coder = "encoder"
            /\ DOMAIN enc.kw = (DOMAIN extra) \ {"noiseless"}
            /\ \A k \in DOMAIN enc.kw : enc.kw[k] = extra[k]
            /\ env.fails # "encoder" =>
                   /\ dec.coder = "decoder"
                   /\ DOMAIN dec.kw = DOMAIN extra
                   /\ \A k \in DOMAIN extra : dec.kw[k] = extra[k]

\* A Form A call with noiseless and another extra option has run through.
C4_Witness ==
    /\ op = "FormA" /\ pc = "returned"
    /\ {"noiseless", "dtype_lik", "num_samples"} \subseteq DOMAIN args.opts
    /\ "noiseless" \notin DOMAIN calls[1].kw
    /\ "noiseless" \in DOMAIN calls[Len(calls)].kw

\* C5 (as claimed): _kl on two Parallel operands of different branch counts
\* fails and returns no value.
C5_LengthMismatchFails ==
    (/\ op = "_kl" /\ pc \in Ended
     /\ args.q.tag = "Parallel" /\ args.p.tag = "Parallel"
     /\ Len(args.q.items) # Len(args.p.items)) =>
        (pc = "raised" /\ result = None)

\* C6: a Form B call makes the coder invocations and gives the result of the
\* Form A call on Parallel(inputs in order), Parallel(outputs in order) with
\* the same options.
C6_FormBIsFormAOnParallels ==
    (op = "FormB" /\ pc \in Ended) =>
        LET n       == Len(args.contexts)
            inputs  == Parallel([i \in 1..n |-> args.contexts[i].items[1]])
            outputs == Parallel([i \in 1..n |-> args.contexts[i].items[2]])
            ref     == FormA(inputs, outputs, args.xt, args.opts, env)
        IN  /\ calls = ref.calls
            /\ result = ref.result
            /\ raised = ref.raised
            /\ calls[1].a[1] = inputs
            /\ calls[1].a[2] = outputs

\* A Form B call on two different context sets, with options, has returned.
C6_Witness ==
    /\ op = "FormB" /\ pc = "returned"
    /\ Len(args.contexts) = 2
    /\ args.contexts[1] # args.contexts[2]
    /\ {"num_samples", "aux_t", "dtype_enc_sample"} \subseteq DOMAIN args.opts

\* C7: _sample of a (nested) Parallel returns a Parallel of the same structure
\* and order whose atomic branches are the samples of size num, and samples
\* each atomic distribution exactly once, in branch order.
C7_SampleMirrorsStructure ==
    (op = "_sample" /\ pc \in Ended) =>
        /\ pc = "returned"
        /\ Mirrors(args.x, result, args.num)
        /\ Len(calls) = Len(Leaves(args.x))
        /\ \A i \in 1..Len(calls) :
               /\ calls[i].fn = "sample"
               /\ calls[i].a = <<Leaves(args.x)[i]>>
               /\ calls[i].kw = ("num" :> IntVal(args.num))

\* A nested Parallel with two different branches has been sampled with num = 3.
C7_Witness ==
    /\ op = "_sample" /\ pc = "returned"
    /\ args.num = 3
    /\ args.x.tag = "Parallel" /\ Len(args.x.items) = 2
    /\ args.x.items[1].tag = "Parallel" /\ Len(args.x.items[1].items) = 2
    /\ args.x.items[1].items[1] # args.x.items[1].items[2]
    /\ result.items[1].items[2].num = 3

\* C8 (as claimed): once predict is in its retry loop, it returns or raises.
C8_LoopTerminates ==
    (op = "predict" /\ pc = "p_try") ~> (pc \in Ended)

\* C8 (amended): once predict is in its retry loop with a positive B.epsilon,
\* it returns or raises.
C8_LoopTerminatesFromPositive ==
    (op = "predict" /\ pc = "p_try" /\ Positive(eps_at_call)) ~> (pc \in Ended)

\* The loop has given up against a sampler that fails on every attempt.
C8_Witness ==
    /\ op = "predict" /\ pc = "raised" /\ env.sampler.kind = "always"
    /\ Positive(eps_at_call)
    /\ attempts >= 4
    /\ escalations = attempts

\* C9: when predict's retry loop gives up at the ceiling (its last attempt
\* was followed by an escalation), the failure it raises is the one the last
\* sampling attempt raised, and B.epsilon was restored when it was raised;
\* a coder's failure in either Model call ends predict with that failure,
\* without any sampling attempt.
C9_OriginalFailurePropagates ==
    (op = "predict" /\ pc \in Ended) =>
        /\ (pc = "raised" /\ attempts > 0 /\ escalations = attempts) =>
               /\ raised = Exc("SampleError", attempts)
               /\ eps_at_raise = eps_at_call
        /\ (env.fails[1] = 1 \/ (env.fails[1] = 2 /\ env.names_bound)) =>
               /\ pc = "raised"
               /\ raised = Exc(IF env.fails[2] = "encoder" THEN "EncoderError"
                               ELSE "DecoderError", 0)
               /\ attempts = 0
               /\ calls[Len(calls)].coder = env.fails[2]

\* From 1e-8 the loop has given up after six failed attempts, raising the sixth
\* failure with B.epsilon back at 1e-8.
C9_Witness ==
    /\ op = "predict" /\ pc = "raised"
    /\ eps_at_call = F_1em8
    /\ attempts = 6 /\ escalations = 6
    /\ raised = Exc("SampleError", 6)
    /\ eps_at_raise = F_1em8

\* The calls an elbo invocation has made are, as far as they go, in this
\* order: tracked encode; recode_stochastic on its pz and h; the samples of qz
\* with num_samples; the decode on that xz and sample; logpdf; mean; the
\* q.kl(p) invocations of one _kl(qz, pz).
C10_InOrder ==
    LET qs == Leaves(env.qz)
        n  == Len(qs)
        m  == Len(calls)
        kl == _kl(env.qz, env.pz).calls
    IN  /\ m >= 1 => calls[1].fn = "code_track" /\ calls[1].coder = "encoder"
        /\ m >= 2 => /\ calls[2].fn = "recode_stochastic" /\ calls[2].coder = "encoder"
                     /\ calls[2].a[1] = env.pz
                     /\ calls[2].a[4].tag = "h" /\ calls[2].a[4].items = calls[1].a
        /\ \A i \in 1..n : m >= 2 + i =>
               /\ calls[2 + i].fn = "sample"
               /\ calls[2 + i].a = <<qs[i]>>
               /\ calls[2 + i].kw = ("num" :> IntVal(args.num_samples))
        /\ m >= 3 + n =>
               /\ calls[3 + n].fn = "code" /\ calls[3 + n].coder = "decoder"
               /\ calls[3 + n].a[1] = Encoded(calls[1].a[1], calls[1].a[2], calls[1].a[3])
               /\ calls[3 + n].a[2].tag = "cast"
               /\ Mirrors(env.qz, calls[3 + n].a[2].items[1], args.num_samples)
        /\ m >= 4 + n => calls[4 + n].fn = "logpdf"
        /\ m >= 5 + n => calls[5 + n].fn = "mean" /\ calls[5 + n].a[1].items = calls[4 + n].a
        /\ m <= 5 + n + Len(kl)
        /\ \A i \in 1..Len(kl) : m >= 5 + n + i => calls[5 + n + i] = kl[i]

\* All the calls of the invocation have been made: every step up to the
\* mean, and the whole of one _kl(qz, pz), whatever num_samples is.
C10_AllSteps ==
    /\ C10_InOrder
    /\ Len(calls) = 5 + Len(Leaves(env.qz)) + Len(_kl(env.qz, env.pz).calls)

\* The result is the mean of the log-density minus the value of that _kl.
C10_KlSubtractedFromMean ==
    LET n    == Len(Leaves(env.qz))
        core == IF args.normalise THEN result.items[1] ELSE result
    IN  /\ core.tag = "sub"
        /\ core.items[1] = V("mean", "", calls[5 + n].a, 0)
        /\ core.items[2].tag = "sum"
        /\ core.items[2].items
               = [i \in 1..(Len(calls) - 5 - n) |-> V("kl", "", calls[5 + n + i].a, 0)]

\* The last call made is the one of the step that fails, and the failure
\* raised is that step's.
C10_StoppedAtFailingStep ==
    LET n    == Len(Leaves(env.qz))
        last == calls[Len(calls)]
    IN  /\ pc = "raised"
        /\ Len(calls) >= 1
        /\ CASE env.fails = "code_track" ->
                   Len(calls) = 1 /\ raised = Exc("EncoderError", 0)
             [] env.fails = "recode_stochastic" ->
                   Len(calls) = 2 /\ raised = Exc("EncoderError", 0)
             [] env.fails = "sample" ->
                   Len(calls) = 3 /\ raised = Exc("SampleError", 0)
             [] env.fails = "decoder" ->
                   Len(calls) = 3 + n /\ raised = Exc("DecoderError", 0)
             [] env.fails = "logpdf" ->
                   Len(calls) = 4 + n /\ raised = Exc("LogpdfError", 0)
             [] OTHER ->
                   Len(calls) = 6 + n /\ last.fn = "kl" /\ raised = Exc("KlError", 0)

\* The step named by env.fails is reached and raises: every step before the
\* KL is, and a q.kl(p) is when _kl(qz, pz) makes one.
C10_StepFails ==
    /\ env.fails # ""
    /\ env.fails = "kl" => Len(_kl(env.qz, env.pz).calls) > 0

\* C10 (as claimed): every elbo call makes, in this order and each once: the
\* tracked encode; recode_stochastic on its pz and h; the samples of qz with
\* num_samples; the decode on that xz and sample; the log-density and its mean
\* over the sample axis; and then one _kl(qz, pz), whose value is subtracted
\* from that mean.
C10_ElboPipelineOrder ==
    (op = "elbo" /\ pc \in Ended) =>
        /\ pc = "returned"
        /\ C10_AllSteps
        /\ C10_KlSubtractedFromMean

\* C10 (amended): an elbo call whose extra options do not name dtype_lik makes
\* those calls in that order, each once, as far as it goes. When no step
\* fails it makes them all, and returns the mean minus the value of
\* _kl(qz, pz) when _kl has a method for every pair it meets, and raises the
\* lookup failure when it has not. When a step fails it makes no call after
\* that step's and raises that step's failure. A call whose extra options
\* name dtype_lik raises TypeError before any of those calls.
C10_ElboPipelineOrderOwnDtypeLik ==
    (op = "elbo" /\ pc \in Ended) =>
        IF "dtype_lik" \in DOMAIN args.kw_args
        THEN pc = "raised" /\ raised = Exc("TypeError", 0) /\ calls = <<>>
        ELSE /\ C10_InOrder
             /\ IF C10_StepFails
                THEN C10_StoppedAtFailingStep
                ELSE /\ C10_AllSteps
                     /\ IF _kl(env.qz, env.pz).raises
                        THEN pc = "raised" /\ raised = Exc("NotFoundLookupError", 0)
                        ELSE pc = "returned" /\ C10_KlSubtractedFromMean

\* An elbo call with two samples and a Parallel posterior and prior of two
\* branches each has returned.
C10_Witness ==
    /\ op = "elbo" /\ pc = "returned"
    /\ args.num_samples = 2
    /\ "dtype_lik" \notin DOMAIN args.kw_args
    /\ env.fails = ""
    /\ env.qz.tag = "Parallel" /\ Len(Leaves(env.qz)) = 2
    /\ Len(calls) = 9

=============================================================================
